---- MODULE Spec2Model ----
(***************************************************************************)
(* A model of mem0's Qdrant vector store (mem0/vector_stores/qdrant.py):   *)
(* the QdrantFilter builder, the filter compiler Qdrant._create_filter and *)
(* the collection / record operations of the Qdrant class.                 *)
(*                                                                         *)
(* Python's None is the empty sequence and a present value v is <<v>>.     *)
(* Builder objects live in a heap (builders) and are passed by reference,  *)
(* as Python passes them: P.must(P) is a call the tests make.              *)
(***************************************************************************)
EXTENDS Integers, Sequences, FiniteSets, TLC

VARIABLES builders, filters, compiled, collections, points, db, threads, last

vars == <<builders, filters, compiled, collections, points, db, threads, last>>

---------------------------------------------------------------------------
(* Values *)

None == <<>>

\* No SQLiteManager has been constructed.
NoDatabase == <<>>

\* The callers run one after the other: no call is in progress between steps.
NoThreads == <<>>

Some(v) == <<v>>

IsSet(o) == o # None

\* Python truthiness of a list: "x if x else None".
OrNone(list) == IF list # <<>> THEN Some(list) ELSE None

Return(v) == [raised |-> FALSE, value |-> v]

Raise(e) == [raised |-> TRUE, error |-> e]

\* A value of a payload field or of a legacy filter entry: a scalar or a dict.
Scalar(n) == [type |-> "scalar", v |-> n]

Dict(d) == [type |-> "dict", d |-> d]

---------------------------------------------------------------------------
(* qdrant_client.models, as the module constructs them *)

Range(gt, gte, lt, lte) == [gt |-> gt, gte |-> gte, lt |-> lt, lte |-> lte]

MatchValue(value) == [value |-> value]

FieldConditionMatch(key, m) == [type |-> "FieldCondition", key |-> key, match |-> Some(m), range |-> None]

FieldConditionRange(key, r) == [type |-> "FieldCondition", key |-> key, match |-> None, range |-> Some(r)]

Filter(m, s, mn) == [type |-> "Filter", must |-> m, should |-> s, must_not |-> mn]

MatchAny(any) == [any |-> any]

MatchExcept(values) == [except |-> values]

ValuesCount(gt, gte, lt, lte) == [gt |-> gt, gte |-> gte, lt |-> lt, lte |-> lte]

\* GeoPoint(**d): the point of a mapping with lon and lat.
GeoPoint(d) == [lon |-> d.lon, lat |-> d.lat]

GeoBoundingBox(bottom_right, top_left) == [bottom_right |-> bottom_right, top_left |-> top_left]

GeoRadius(center, radius) == [center |-> center, radius |-> radius]

GeoPolygon(exterior, interiors) == [exterior |-> exterior, interiors |-> interiors]

PayloadField(key) == [key |-> key]

HasIdCondition(has_id) == [type |-> "HasIdCondition", has_id |-> has_id]

HasVectorCondition(has_vector) == [type |-> "HasVectorCondition", has_vector |-> has_vector]

IsEmptyCondition(is_empty) == [type |-> "IsEmptyCondition", is_empty |-> is_empty]

IsNullCondition(is_null) == [type |-> "IsNullCondition", is_null |-> is_null]

FieldConditionValuesCount(key, vc) == [type |-> "FieldCondition", key |-> key, match |-> None, range |-> None, values_count |-> Some(vc)]

FieldConditionGeoBoundingBox(key, box) == [type |-> "FieldCondition", key |-> key, match |-> None, range |-> None, geo_bounding_box |-> Some(box)]

FieldConditionGeoRadius(key, r) == [type |-> "FieldCondition", key |-> key, match |-> None, range |-> None, geo_radius |-> Some(r)]

FieldConditionGeoPolygon(key, poly) == [type |-> "FieldCondition", key |-> key, match |-> None, range |-> None, geo_polygon |-> Some(poly)]

---------------------------------------------------------------------------
(* class QdrantFilter *)

BuilderIds == {"P", "B"}

Slots == {"must", "should", "must_not"}

\* QdrantFilter.__init__
EmptyBuilder == [conditions |-> <<>>, must |-> <<>>, should |-> <<>>, must_not |-> <<>>]

EmptyHeap == [b \in BuilderIds |-> EmptyBuilder]

\* The argument of a composition method: a QdrantFilter (by reference) or
\* any other object, which is appended as it is.
FilterRef(b) == [isFilter |-> TRUE, ref |-> b]

Obj(c) == [isFilter |-> FALSE, obj |-> c]

build_raises_on_must_only(F) == IF F.conditions # <<>> THEN IF F.must # <<>> THEN Raise("ValueError") ELSE Return(Filter(Some(F.conditions), None, None)) ELSE Return(Filter(OrNone(F.must), OrNone(F.should), OrNone(F.must_not)))

build(F) ==
    IF F.conditions # <<>>
    THEN IF F.must # <<>> \/ F.should # <<>> \/ F.must_not # <<>>
         THEN Raise("ValueError")
         ELSE Return(Filter(Some(F.conditions), None, None))
    ELSE Return(Filter(OrNone(F.must), OrNone(F.should), OrNone(F.must_not)))

match_appends_to_aliased_slots(heap, self, key, value) == [b \in DOMAIN heap |-> IF b = self THEN [heap[b] EXCEPT !.conditions = Append(@, FieldConditionMatch(key, MatchValue(value)))] ELSE [heap[b] EXCEPT !.must = IF @ # <<>> /\ @ = heap[self].conditions THEN Append(@, FieldConditionMatch(key, MatchValue(value))) ELSE @]]

match(heap, self, key, value) ==
    [heap EXCEPT ![self].conditions = Append(@, FieldConditionMatch(key, MatchValue(value)))]

range_gte_defaults_to_zero(heap, self, key_name, gt, gte, lt, lte) == [heap EXCEPT ![self].conditions = Append(@, FieldConditionRange(key_name, Range(gt, IF gte = None THEN Some(0) ELSE gte, lt, lte)))]

range(heap, self, key_name, gt, gte, lt, lte) ==
    [heap EXCEPT ![self].conditions = Append(@, FieldConditionRange(key_name, Range(gt, gte, lt, lte)))]

match_any_one_condition_per_value(heap, self, key, values) == [heap EXCEPT ![self].conditions = @ \o [i \in 1..Len(values) |-> FieldConditionMatch(key, MatchValue(values[i]))]]

match_any(heap, self, key, values) ==
    [heap EXCEPT ![self].conditions = Append(@, FieldConditionMatch(key, MatchAny(values)))]

match_except(heap, self, key_name, values) ==
    [heap EXCEPT ![self].conditions = Append(@, FieldConditionMatch(key_name, MatchExcept(values)))]

has_id(heap, self, ids) ==
    [heap EXCEPT ![self].conditions = Append(@, HasIdCondition(ids))]

has_vector(heap, self, vector_name) ==
    [heap EXCEPT ![self].conditions = Append(@, HasVectorCondition(vector_name))]

is_empty(heap, self, key_name) ==
    [heap EXCEPT ![self].conditions = Append(@, IsEmptyCondition(PayloadField(key_name)))]

is_null(heap, self, key_name) ==
    [heap EXCEPT ![self].conditions = Append(@, IsNullCondition(PayloadField(key_name)))]

values_count(heap, self, key, gt, gte, lt, lte) ==
    [heap EXCEPT ![self].conditions = Append(@, FieldConditionValuesCount(key, ValuesCount(gt, gte, lt, lte)))]

geo_bounding_box(heap, self, key, bottom_right, top_left) ==
    [heap EXCEPT ![self].conditions = Append(@, FieldConditionGeoBoundingBox(key, GeoBoundingBox(GeoPoint(bottom_right), GeoPoint(top_left))))]

geo_radius(heap, self, key, center, radius) ==
    [heap EXCEPT ![self].conditions = Append(@, FieldConditionGeoRadius(key, GeoRadius(GeoPoint(center), radius)))]

\* interiors is None or Some(list of rings); "if interiors" is false for
\* None and for the empty list.
geo_polygon(heap, self, key, exterior, interiors) ==
    [heap EXCEPT ![self].conditions = Append(@, FieldConditionGeoPolygon(key, GeoPolygon(
        [points |-> [i \in 1..Len(exterior) |-> GeoPoint(exterior[i])]],
        IF interiors # None /\ interiors[1] # <<>>
        THEN Some([r \in 1..Len(interiors[1]) |-> [points |-> [i \in 1..Len(interiors[1][r]) |-> GeoPoint(interiors[1][r][i])]]])
        ELSE None)))]

must_copies_nested_must(heap, self, condition) == IF condition.isFilter THEN [heap EXCEPT ![self].must = @ \o heap[condition.ref].conditions \o heap[condition.ref].must] ELSE [heap EXCEPT ![self].must = Append(@, condition.obj)]

must(heap, self, condition) ==
    IF condition.isFilter
    THEN [heap EXCEPT ![self].must = @ \o heap[condition.ref].conditions]
    ELSE [heap EXCEPT ![self].must = Append(@, condition.obj)]

should_replaces_slot(heap, self, condition) == IF condition.isFilter THEN [heap EXCEPT ![self].should = heap[condition.ref].conditions] ELSE [heap EXCEPT ![self].should = <<condition.obj>>]

should(heap, self, condition) ==
    IF condition.isFilter
    THEN [heap EXCEPT ![self].should = @ \o heap[condition.ref].conditions]
    ELSE [heap EXCEPT ![self].should = Append(@, condition.obj)]

must_not(heap, self, condition) ==
    IF condition.isFilter
    THEN [heap EXCEPT ![self].must_not = @ \o heap[condition.ref].conditions]
    ELSE [heap EXCEPT ![self].must_not = Append(@, condition.obj)]

---------------------------------------------------------------------------
(* The builder under its callers: condition, composition and build calls on *)
(* two builder objects, in any order.                                       *)

\* Bound of the model: the conditions held by all builders together.
MaxItems == 4

Keys == {"f", "g"}

TotalItems(heap) == LET n(b) == Len(heap[b].conditions) + Len(heap[b].must) + Len(heap[b].should) + Len(heap[b].must_not) IN n("P") + n("B")

\* What a caller passes to must/should/must_not when it is not a builder:
\* a condition, or a Filter built elsewhere (a Filter is a qdrant condition).
RawConditions == {FieldConditionMatch("g", MatchValue(Scalar(1))), Filter(None, None, Some(<<FieldConditionMatch("f", MatchValue(Scalar(1)))>>))}

CompositionArgs == {FilterRef(b) : b \in BuilderIds} \cup {Obj(c) : c \in RawConditions}

Added(heap, condition) == IF condition.isFilter THEN Len(heap[condition.ref].conditions) ELSE 1

InitBuilder ==
    /\ builders = EmptyHeap
    /\ filters = None
    /\ compiled = None
    /\ collections = <<>>
    /\ points = <<>>
    /\ db = NoDatabase
    /\ threads = NoThreads
    /\ last = [op |-> "init"]

Match(b, key, value) ==
    /\ TotalItems(builders) < MaxItems
    /\ builders' = match(builders, b, key, value)
    /\ last' = [op |-> "match", target |-> b, key |-> key, value |-> value]
    /\ UNCHANGED <<filters, compiled, collections, points, db, threads>>

Must(b, condition) ==
    /\ TotalItems(builders) + Added(builders, condition) <= MaxItems
    /\ builders' = must(builders, b, condition)
    /\ last' = [op |-> "must", target |-> b, arg |-> condition]
    /\ UNCHANGED <<filters, compiled, collections, points, db, threads>>

Should(b, condition) ==
    /\ TotalItems(builders) + Added(builders, condition) <= MaxItems
    /\ builders' = should(builders, b, condition)
    /\ last' = [op |-> "should", target |-> b, arg |-> condition]
    /\ UNCHANGED <<filters, compiled, collections, points, db, threads>>

MustNot(b, condition) ==
    /\ TotalItems(builders) + Added(builders, condition) <= MaxItems
    /\ builders' = must_not(builders, b, condition)
    /\ last' = [op |-> "must_not", target |-> b, arg |-> condition]
    /\ UNCHANGED <<filters, compiled, collections, points, db, threads>>

Build_resets_builder(b) == /\ last' = [op |-> "build", target |-> b, result |-> build(builders[b])] /\ builders' = [builders EXCEPT ![b] = EmptyBuilder] /\ UNCHANGED <<filters, compiled, collections, points, db, threads>>

Build(b) ==
    /\ last' = [op |-> "build", target |-> b, result |-> build(builders[b])]
    /\ UNCHANGED <<builders, filters, compiled, collections, points, db, threads>>

NextBuilder ==
    \/ \E b \in BuilderIds, key \in Keys : Match(b, key, Scalar(1))
    \/ \E b \in BuilderIds, c \in CompositionArgs : Must(b, c)
    \/ \E b \in BuilderIds, c \in CompositionArgs : Should(b, c)
    \/ \E b \in BuilderIds, c \in CompositionArgs : MustNot(b, c)
    \/ \E b \in BuilderIds : Build(b)

SpecBuilder == InitBuilder /\ [][NextBuilder]_vars

---------------------------------------------------------------------------
(* Claims about the builder (SpecBuilder) *)

UsesSlots(F) == F.must # <<>> \/ F.should # <<>> \/ F.must_not # <<>>

\* C1: build() raises the composition error (ValueError) if and only if the
\* builder's flat condition list is non-empty and at least one of its
\* must/should/must_not slots is non-empty; otherwise it returns a filter.
C1_BuildRaisesIffMixed ==
    last.op = "build" =>
        LET F == builders[last.target]
            mixed == F.conditions # <<>> /\ UsesSlots(F)
        IN /\ last.result.raised <=> mixed
           /\ last.result.raised => last.result.error = "ValueError"
           /\ ~last.result.raised => last.result.value.type = "Filter"

\* A build() that raised on a builder whose must slot is empty: the mix is
\* with should or must_not alone.
C1_Witness ==
    /\ last.op = "build"
    /\ last.result.raised
    /\ builders[last.target].must = <<>>

\* C4: a builder that itself uses must/should/must_not slots and is passed to
\* a composition method of another builder is embedded in the parent's slot
\* as a sub-tree (its built group), so that must(must(must(should(must_not(
\* cond))))) keeps its nesting.
C4_NestedBuilderEmbedded ==
    (last.op \in Slots /\ last.arg.isFilter /\ last.arg.ref # last.target) =>
        LET nested == builders[last.arg.ref]
            slot == builders[last.target][last.op]
        IN (nested.conditions = <<>> /\ UsesSlots(nested)) =>
              \E i \in DOMAIN slot : slot[i] = build(nested).value

\* C8: a composition method given another builder B appends B's flat list,
\* in order, to the end of the slot and changes nothing else (B's slots are
\* not copied, P's other slots and flat list and B itself are unchanged);
\* given a single condition it appends exactly that condition.
C8_CompositionFrame ==
    [][last'.op \in Slots =>
          LET p == last'.target
              s == last'.op
              a == last'.arg
              items == IF a.isFilter THEN builders[a.ref].conditions ELSE <<a.obj>>
          IN (a.isFilter => a.ref # p) =>
                /\ builders'[p][s] = builders[p][s] \o items
                /\ \A t \in Slots \ {s} : builders'[p][t] = builders[p][t]
                /\ builders'[p].conditions = builders[p].conditions
                /\ \A b \in BuilderIds \ {p} : builders'[b] = builders[b]]_vars

\* P.must(B) has run with B holding a flat condition and a must slot of its
\* own, and P's must slot holds B's flat list and nothing of B's slot.
C8_Witness ==
    /\ last.op = "must"
    /\ last.arg.isFilter
    /\ last.arg.ref # last.target
    /\ builders[last.arg.ref].conditions # <<>>
    /\ builders[last.arg.ref].must # <<>>
    /\ builders[last.target].must = builders[last.arg.ref].conditions

---------------------------------------------------------------------------
(* The condition methods on one builder: range with every subset of its    *)
(* bounds, then build.                                                      *)

\* Bound of the model: the length of the flat list.
MaxConds == 2

BoundNames == {"gt", "gte", "lt", "lte"}

\* An optional bound as a caller passes it: omitted (None) or a number.
OptBounds == {None, Some(1), Some(2)}

RangeCall(b, key_name, gt, gte, lt, lte) ==
    /\ Len(builders[b].conditions) < MaxConds
    /\ builders' = range(builders, b, key_name, gt, gte, lt, lte)
    /\ last' = [op |-> "range", target |-> b, key |-> key_name, bounds |-> Range(gt, gte, lt, lte)]
    /\ UNCHANGED <<filters, compiled, collections, points, db, threads>>

NextCond ==
    \/ \E gt \in OptBounds, gte \in OptBounds, lt \in OptBounds, lte \in OptBounds : RangeCall("P", "f", gt, gte, lt, lte)
    \/ Build("P")

SpecCond == InitBuilder /\ [][NextCond]_vars

\* C10: for every subset of {gt, gte, lt, lte} passed to range(key, ...), the
\* compiled Range condition has exactly the supplied bounds set to the
\* supplied values and every other bound unset.
C10_RangeBoundsExact ==
    last.op = "range" =>
        LET F == builders[last.target]
            out == build(F)
            c == out.value.must[1][Len(F.conditions)]
        IN /\ ~out.raised
           /\ Len(out.value.must[1]) = Len(F.conditions)
           /\ c.type = "FieldCondition"
           /\ c.key = last.key
           /\ c.match = None
           /\ IsSet(c.range)
           /\ \A bnd \in BoundNames : c.range[1][bnd] = last.bounds[bnd]

\* range("f", gt=1, lt=2) has been called.
C10_Witness ==
    /\ last.op = "range"
    /\ last.bounds = Range(Some(1), None, Some(2), None)
    /\ builders[last.target].conditions[Len(builders[last.target].conditions)].range[1].gte = None

---------------------------------------------------------------------------
(* Qdrant._create_filter: the filter compiler *)

\* The filters argument: None, a builder (by reference) or a legacy dict,
\* kept as the sequence of its (key, value) items in iteration order.
NoneArg == [type |-> "None"]

BuilderArg(b) == [type |-> "FilterBase", ref |-> b]

DictArg(items) == [type |-> "dict", items |-> items]

\* "if filters": None and the empty dict are falsy, an object is truthy.
Truthy(f) == IF f.type = "None" THEN FALSE ELSE IF f.type = "dict" THEN f.items # <<>> ELSE TRUE

\* dict.get(k): None when the key is missing.
Get(d, k) == IF k \in DOMAIN d THEN Some(d[k]) ELSE None

entry_condition_any_dict_is_range(key, value) == IF value.type = "dict" THEN FieldConditionRange(key, Range(Get(value.d, "gt"), Get(value.d, "gte"), Get(value.d, "lt"), Get(value.d, "lte"))) ELSE FieldConditionMatch(key, MatchValue(value))

\* The body of the loop over filters.items().
entry_condition(key, value) ==
    IF value.type = "dict"
    THEN IF "gte" \in DOMAIN value.d /\ "lte" \in DOMAIN value.d
         THEN FieldConditionRange(key, Range(None, Some(value.d["gte"]), None, Some(value.d["lte"])))
         ELSE IF "gt" \in DOMAIN value.d \/ "gte" \in DOMAIN value.d \/ "lt" \in DOMAIN value.d \/ "lte" \in DOMAIN value.d
              THEN FieldConditionRange(key, Range(Get(value.d, "gt"), Get(value.d, "gte"), Get(value.d, "lt"), Get(value.d, "lte")))
              ELSE FieldConditionMatch(key, MatchValue(value))
    ELSE FieldConditionMatch(key, MatchValue(value))

_create_filter_empty_group(heap, f) == IF f.type = "None" THEN Return(None) ELSE IF f.type = "FilterBase" THEN (LET r == build(heap[f.ref]) IN IF r.raised THEN r ELSE Return(Some(r.value))) ELSE Return(Some(Filter(Some([i \in 1..Len(f.items) |-> entry_condition(f.items[i][1], f.items[i][2])]), None, None)))

_create_filter_entries_as_should(heap, f) == IF f.type = "None" THEN Return(None) ELSE IF f.type = "FilterBase" THEN (LET r == build(heap[f.ref]) IN IF r.raised THEN r ELSE Return(Some(r.value))) ELSE (LET conditions == [i \in 1..Len(f.items) |-> entry_condition(f.items[i][1], f.items[i][2])] IN Return(IF conditions # <<>> THEN Some(Filter(Some(<<conditions[1]>>), OrNone(Tail(conditions)), None)) ELSE None))

\* Returns None or a Filter (Some(filter)), or raises what build() raises.
_create_filter(heap, f) ==
    IF f.type = "None"
    THEN Return(None)
    ELSE IF f.type = "FilterBase"
         THEN LET r == build(heap[f.ref])
              IN IF r.raised THEN r ELSE Return(Some(r.value))
         ELSE LET conditions == [i \in 1..Len(f.items) |-> entry_condition(f.items[i][1], f.items[i][2])]
              IN Return(IF conditions # <<>> THEN Some(Filter(Some(conditions), None, None)) ELSE None)

---------------------------------------------------------------------------
(* The compiler on every input of a bounded set *)

\* Bound of the model: the entries of a legacy dict.
MaxEntries == 2

\* Sub-mappings: every subset of the four bounds with values 1 or 2, with
\* or without one more key.
SubDicts == UNION {[S -> {1, 2}] : S \in SUBSET BoundNames} \cup UNION {{[k \in S \cup {"x"} |-> IF k = "x" THEN 1 ELSE d[k]] : d \in [S -> {1, 2}]} : S \in SUBSET BoundNames}

LegacyValues == {Scalar(1), Scalar(2)} \cup {Dict(d) : d \in SubDicts}

\* Dicts of at most MaxEntries items with distinct keys.
LegacyDicts ==
    {DictArg(<<>>)}
    \cup (IF MaxEntries >= 1 THEN {DictArg(<<<<k, v>>>>) : k \in Keys, v \in LegacyValues} ELSE {})
    \cup (IF MaxEntries >= 2 THEN {DictArg(<<<<kk[1], v1>>, <<kk[2], v2>>>>) : kk \in {p \in Keys \X Keys : p[1] # p[2]}, v1 \in LegacyValues, v2 \in LegacyValues} ELSE {})

\* Two builders as callers leave them: B holds one flat condition, P holds a
\* flat condition and a must slot.
SampleHeap ==
    must(match(match(EmptyHeap, "B", "f", Scalar(1)), "P", "f", Scalar(1)), "P", Obj(FieldConditionMatch("g", MatchValue(Scalar(1)))))

CompilerInputs == {NoneArg} \cup {BuilderArg(b) : b \in BuilderIds} \cup LegacyDicts

InitCompiler ==
    /\ builders = SampleHeap
    /\ filters \in CompilerInputs
    /\ compiled = None
    /\ collections = <<>>
    /\ points = <<>>
    /\ db = NoDatabase
    /\ threads = NoThreads
    /\ last = [op |-> "init"]

CreateFilter ==
    /\ compiled = None
    /\ compiled' = Some(_create_filter(builders, filters))
    /\ last' = [op |-> "_create_filter"]
    /\ UNCHANGED <<builders, filters, collections, points, db, threads>>

NextCompiler == CreateFilter

SpecCompiler == InitCompiler /\ [][NextCompiler]_vars

HasRangeKey(v) == v.type = "dict" /\ DOMAIN v.d \cap BoundNames # {}

\* QdrantFilter().match(field, v).build()
BuiltByMatch(field, v) == build(match(EmptyHeap, "P", field, v)["P"])

SingleEntryCompiled == compiled # None /\ filters.type = "dict" /\ Len(filters.items) = 1

\* C2 as stated: for any field and any value v, scalar or mapping, compiling
\* {field: v} gives the filter that QdrantFilter().match(field, v).build()
\* gives: one implicit-AND group with one equality condition on field.
C2_LegacyEqualsMatchAnyValue ==
    SingleEntryCompiled =>
        LET field == filters.items[1][1]
            v == filters.items[1][2]
        IN /\ ~compiled[1].raised
           /\ compiled[1].value = Some(BuiltByMatch(field, v).value)
           /\ compiled[1].value = Some(Filter(Some(<<FieldConditionMatch(field, MatchValue(v))>>), None, None))

\* C2 amended: the same, for every value v that is a scalar or a mapping
\* with none of the keys gt, gte, lt, lte.
C2_LegacyEqualsMatch ==
    SingleEntryCompiled =>
        LET field == filters.items[1][1]
            v == filters.items[1][2]
        IN ~HasRangeKey(v) =>
              /\ ~compiled[1].raised
              /\ ~BuiltByMatch(field, v).raised
              /\ compiled[1].value = Some(BuiltByMatch(field, v).value)
              /\ compiled[1].value = Some(Filter(Some(<<FieldConditionMatch(field, MatchValue(v))>>), None, None))

\* {"f": {"x": 1}} has been compiled: a mapping value without a range key.
C2_Witness ==
    /\ SingleEntryCompiled
    /\ filters.items[1][2].type = "dict"
    /\ DOMAIN filters.items[1][2].d = {"x"}
    /\ compiled[1].value[1].must[1][1].match # None

\* C3: compiling a legacy mapping, every key whose value is a sub-mapping with
\* any of gt/gte/lt/lte gives one Range condition whose set bounds are
\* exactly the bounds present in the sub-mapping, each with its value, for
\* every subset of the four bounds; every other value gives a Match condition.
C3_RangeHasExactlyPresentBounds ==
    (compiled # None /\ filters.type = "dict" /\ filters.items # <<>>) =>
        /\ ~compiled[1].raised
        /\ IsSet(compiled[1].value)
        /\ LET conditions == compiled[1].value[1].must[1]
           IN /\ Len(conditions) = Len(filters.items)
              /\ \A i \in 1..Len(filters.items) :
                    LET key == filters.items[i][1]
                        v == filters.items[i][2]
                        c == conditions[i]
                    IN IF HasRangeKey(v)
                       THEN /\ c.key = key
                            /\ c.match = None
                            /\ IsSet(c.range)
                            /\ \A bnd \in BoundNames : c.range[1][bnd] = Get(v.d, bnd)
                       ELSE c = FieldConditionMatch(key, MatchValue(v))

---------------------------------------------------------------------------
(* The backend: the QdrantClient calls the Qdrant class makes, with the     *)
(* effect each has on the engine's collections and on the points of the     *)
(* store's collection. A stored point is [vector, payload], each optional.  *)

\* Qdrant.collection_name (the tests' name)
CollectionName == "test_collection"

Exists(cols) == \E i \in DOMAIN cols : cols[i].name = CollectionName

VectorParams(size, distance, on_disk) == [name |-> CollectionName, size |-> size, distance |-> distance, on_disk |-> on_disk]

\* client.create_collection: an existing name is refused.
CreateCollection(cols, params) == IF Exists(cols) THEN Raise("Backend") ELSE Return(Append(cols, params))

\* client.delete_collection: the collection goes, and its points with it.
DeleteCollection(cols) == SelectSeq(cols, LAMBDA c : c.name # CollectionName)

PointStruct(id, vector, payload) == [id |-> id, vector |-> vector, payload |-> payload]

RECURSIVE Upserted(_, _)
\* client.upsert: each point replaces the stored point of its id as a whole.
Upserted(pts, structs) ==
    IF structs = <<>>
    THEN pts
    ELSE Upserted([pts EXCEPT ![Head(structs).id] = Some([vector |-> Head(structs).vector, payload |-> Head(structs).payload])], Tail(structs))

\* client.retrieve(ids=[id], with_payload, with_vectors): the records found.
Retrieve(pts, id, with_payload, with_vectors) ==
    IF pts[id] = None
    THEN <<>>
    ELSE <<[id |-> id, payload |-> IF with_payload THEN pts[id][1].payload ELSE None, vector |-> IF with_vectors THEN pts[id][1].vector ELSE None]>>

---------------------------------------------------------------------------
(* class Qdrant: each method as the outcome of one call in the current      *)
(* state: whether it raised, what it returned, the backend calls it issued  *)
(* in order (calls) with the arguments of each (sent), and the backend      *)
(* state it leaves. failing is the set of client calls the backend does not *)
(* serve at the time of the call: such a call raises and has no effect.     *)

Outcome(raised, error, value, calls, sent, cols, pts) == [raised |-> raised, error |-> error, value |-> value, calls |-> calls, sent |-> sent, collections |-> cols, points |-> pts]

BackendCalls == {"get_collections", "create_collection", "delete_collection", "upsert", "retrieve", "delete", "get_collection", "query_points", "scroll"}

\* The methods have no try/except: the exception of the last call in calls
\* leaves the method at once.
Unserved(calls, sent) == Outcome(TRUE, "Unavailable", None, calls, sent, collections, points)

NoArgs == <<>>

OfCollection == [collection_name |-> CollectionName]

NoPoints(pts) == [i \in DOMAIN pts |-> None]

create_col_without_check(vector_size, on_disk, distance, failing) == LET params == VectorParams(vector_size, distance, on_disk) r == CreateCollection(collections, params) IN IF "get_collections" \in failing THEN Unserved(<<"get_collections">>, <<NoArgs>>) ELSE IF "create_collection" \in failing THEN Unserved(<<"get_collections", "create_collection">>, <<NoArgs, params>>) ELSE IF r.raised THEN Outcome(TRUE, r.error, None, <<"get_collections", "create_collection">>, <<NoArgs, params>>, collections, points) ELSE Outcome(FALSE, "", None, <<"get_collections", "create_collection">>, <<NoArgs, params>>, r.value, points)

create_col_ignores_listing_failure(vector_size, on_disk, distance, failing) == LET params == VectorParams(vector_size, distance, on_disk) r == CreateCollection(collections, params) IN IF "get_collections" \notin failing /\ Exists(collections) THEN Outcome(FALSE, "", None, <<"get_collections">>, <<NoArgs>>, collections, points) ELSE IF "create_collection" \in failing THEN Unserved(<<"get_collections", "create_collection">>, <<NoArgs, params>>) ELSE IF r.raised THEN Outcome(TRUE, r.error, None, <<"get_collections", "create_collection">>, <<NoArgs, params>>, collections, points) ELSE Outcome(FALSE, "", None, <<"get_collections", "create_collection">>, <<NoArgs, params>>, r.value, points)

create_col(vector_size, on_disk, distance, failing) ==
    LET params == VectorParams(vector_size, distance, on_disk)
        r == CreateCollection(collections, params)
    IN IF "get_collections" \in failing
       THEN Unserved(<<"get_collections">>, <<NoArgs>>)
       ELSE IF Exists(collections)
            THEN Outcome(FALSE, "", None, <<"get_collections">>, <<NoArgs>>, collections, points)
            ELSE IF "create_collection" \in failing
                 THEN Unserved(<<"get_collections", "create_collection">>, <<NoArgs, params>>)
                 ELSE IF r.raised
                      THEN Outcome(TRUE, r.error, None, <<"get_collections", "create_collection">>, <<NoArgs, params>>, collections, points)
                      ELSE Outcome(FALSE, "", None, <<"get_collections", "create_collection">>, <<NoArgs, params>>, r.value, points)

delete_col(failing) ==
    IF "delete_collection" \in failing
    THEN Unserved(<<"delete_collection">>, <<OfCollection>>)
    ELSE Outcome(FALSE, "", None, <<"delete_collection">>, <<OfCollection>>, DeleteCollection(collections), NoPoints(points))

insert_ids_from_one(vectors, payloads, ids, failing) == LET structs == [idx \in 1..Len(vectors) |-> PointStruct(IF ids = None THEN idx ELSE ids[1][idx], Some(vectors[idx]), Some(IF payloads # None /\ payloads[1] # <<>> THEN payloads[1][idx] ELSE <<>>))] IN IF "upsert" \in failing THEN Unserved(<<"upsert">>, <<[points |-> structs]>>) ELSE IF Exists(collections) THEN Outcome(FALSE, "", None, <<"upsert">>, <<[points |-> structs]>>, collections, Upserted(points, structs)) ELSE Outcome(TRUE, "Backend", None, <<"upsert">>, <<[points |-> structs]>>, collections, points)

\* payloads and ids are None or Some(list).
insert(vectors, payloads, ids, failing) ==
    LET structs == [idx \in 1..Len(vectors) |->
                      PointStruct(IF ids = None THEN idx - 1 ELSE ids[1][idx],
                                  Some(vectors[idx]),
                                  Some(IF payloads # None /\ payloads[1] # <<>> THEN payloads[1][idx] ELSE <<>>))]
    IN IF "upsert" \in failing
       THEN Unserved(<<"upsert">>, <<[points |-> structs]>>)
       ELSE IF Exists(collections)
            THEN Outcome(FALSE, "", None, <<"upsert">>, <<[points |-> structs]>>, collections, Upserted(points, structs))
            ELSE Outcome(TRUE, "Backend", None, <<"upsert">>, <<[points |-> structs]>>, collections, points)

\* vector and payload are None when the caller omits them. PointStruct is
\* built with them as they are; whether it accepts vector=None is the client
\* library's choice (accepts_none), and when it does not the call raises
\* before the upsert.
update(vector_id, vector, payload, accepts_none, failing) ==
    LET point == PointStruct(vector_id, vector, payload)
    IN IF vector = None /\ ~accepts_none
       THEN Outcome(TRUE, "ValidationError", None, <<>>, <<>>, collections, points)
       ELSE IF "upsert" \in failing
            THEN Unserved(<<"upsert">>, <<[points |-> <<point>>]>>)
            ELSE IF Exists(collections)
                 THEN Outcome(FALSE, "", None, <<"upsert">>, <<[points |-> <<point>>]>>, collections, Upserted(points, <<point>>))
                 ELSE Outcome(TRUE, "Backend", None, <<"upsert">>, <<[points |-> <<point>>]>>, collections, points)

\* retrieve is called with with_payload=True and with_vectors left at the
\* client's default, which is off.
get(vector_id, failing) ==
    LET args == [ids |-> <<vector_id>>, with_payload |-> TRUE]
        result == Retrieve(points, vector_id, TRUE, FALSE)
    IN IF "retrieve" \in failing
       THEN Unserved(<<"retrieve">>, <<args>>)
       ELSE IF Exists(collections)
            THEN Outcome(FALSE, "", IF result # <<>> THEN Some(result[1]) ELSE None, <<"retrieve">>, <<args>>, collections, points)
            ELSE Outcome(TRUE, "Backend", None, <<"retrieve">>, <<args>>, collections, points)

delete_raises_on_absent_id(vector_id, failing) == IF "delete" \in failing THEN Unserved(<<"delete">>, <<[points |-> <<vector_id>>]>>) ELSE IF Exists(collections) /\ points[vector_id] # None THEN Outcome(FALSE, "", None, <<"delete">>, <<[points |-> <<vector_id>>]>>, collections, [points EXCEPT ![vector_id] = None]) ELSE Outcome(TRUE, "Backend", None, <<"delete">>, <<[points |-> <<vector_id>>]>>, collections, points)

delete(vector_id, failing) ==
    LET args == [points |-> <<vector_id>>]
    IN IF "delete" \in failing
       THEN Unserved(<<"delete">>, <<args>>)
       ELSE IF Exists(collections)
            THEN Outcome(FALSE, "", None, <<"delete">>, <<args>>, collections, [points EXCEPT ![vector_id] = None])
            ELSE Outcome(TRUE, "Backend", None, <<"delete">>, <<args>>, collections, points)

list_cols(failing) ==
    IF "get_collections" \in failing
    THEN Unserved(<<"get_collections">>, <<NoArgs>>)
    ELSE Outcome(FALSE, "", Some(collections), <<"get_collections">>, <<NoArgs>>, collections, points)

col_info(failing) ==
    IF "get_collection" \in failing
    THEN Unserved(<<"get_collection">>, <<OfCollection>>)
    ELSE IF Exists(collections)
         THEN Outcome(FALSE, "", Some(SelectSeq(collections, LAMBDA c : c.name = CollectionName)[1]), <<"get_collection">>, <<OfCollection>>, collections, points)
         ELSE Outcome(TRUE, "Backend", None, <<"get_collection">>, <<OfCollection>>, collections, points)

search_queries_before_compiling(heap, f, limit, hits, failing) == LET qf == IF Truthy(f) THEN _create_filter(heap, f) ELSE Return(None) IN IF qf.raised THEN Outcome(TRUE, qf.error, None, <<"query_points">>, <<[query_filter |-> None, limit |-> limit]>>, collections, points) ELSE IF Exists(collections) THEN Outcome(FALSE, "", Some(hits), <<"query_points">>, <<[query_filter |-> qf.value, limit |-> limit]>>, collections, points) ELSE Outcome(TRUE, "Backend", None, <<"query_points">>, <<[query_filter |-> qf.value, limit |-> limit]>>, collections, points)

search_returns_hits_reversed(heap, f, limit, hits, failing) == LET query_filter == IF Truthy(f) THEN _create_filter(heap, f) ELSE Return(None) IN IF query_filter.raised THEN Outcome(TRUE, query_filter.error, None, <<>>, <<>>, collections, points) ELSE IF "query_points" \in failing THEN Unserved(<<"query_points">>, <<[query_filter |-> query_filter.value, limit |-> limit]>>) ELSE IF Exists(collections) THEN Outcome(FALSE, "", Some([i \in DOMAIN hits |-> hits[Len(hits) + 1 - i]]), <<"query_points">>, <<[query_filter |-> query_filter.value, limit |-> limit]>>, collections, points) ELSE Outcome(TRUE, "Backend", None, <<"query_points">>, <<[query_filter |-> query_filter.value, limit |-> limit]>>, collections, points)

\* hits is what the engine answers to query_points(query, query_filter,
\* limit); the query vector is handed over as it is.
search(heap, f, limit, hits, failing) ==
    LET query_filter == IF Truthy(f) THEN _create_filter(heap, f) ELSE Return(None)
        args == [query_filter |-> query_filter.value, limit |-> limit]
    IN IF query_filter.raised
       THEN Outcome(TRUE, query_filter.error, None, <<>>, <<>>, collections, points)
       ELSE IF "query_points" \in failing
            THEN Unserved(<<"query_points">>, <<args>>)
            ELSE IF Exists(collections)
                 THEN Outcome(FALSE, "", Some(hits), <<"query_points">>, <<args>>, collections, points)
                 ELSE Outcome(TRUE, "Backend", None, <<"query_points">>, <<args>>, collections, points)

\* The name of the source is list; page is what the engine answers to
\* scroll(scroll_filter, limit): the records and the next page offset.
list(heap, f, limit, page, failing) ==
    LET query_filter == IF Truthy(f) THEN _create_filter(heap, f) ELSE Return(None)
        args == [scroll_filter |-> query_filter.value, limit |-> limit, with_payload |-> TRUE, with_vectors |-> FALSE]
    IN IF query_filter.raised
       THEN Outcome(TRUE, query_filter.error, None, <<>>, <<>>, collections, points)
       ELSE IF "scroll" \in failing
            THEN Unserved(<<"scroll">>, <<args>>)
            ELSE IF Exists(collections)
                 THEN Outcome(FALSE, "", Some(page), <<"scroll">>, <<args>>, collections, points)
                 ELSE Outcome(TRUE, "Backend", None, <<"scroll">>, <<args>>, collections, points)

---------------------------------------------------------------------------
(* The store under its callers: any sequence of calls on one Qdrant object. *)

\* Bound of the model: the vectors of one insert call.
MaxBatch == 1

Ids == {0, 1}

\* The ids a point can have: the callers' ids and insert's positional ones.
PointIds == Ids \cup 0..(MaxBatch - 1)

Vectors == {<<1>>, <<2>>}

Payloads == {<<>>, [k |-> 1]}

\* The configurations callers ask for: they differ in dimension, in
\* persistence mode and in metric.
Configs == {VectorParams(1, "Cosine", FALSE), VectorParams(2, "Cosine", TRUE), VectorParams(1, "Dot", FALSE)}

Limits == {1, 2}

Lists(S, n) == [1..n -> S]

Batches == UNION {{[vectors |-> v, payloads |-> py, ids |-> i] : v \in Lists(Vectors, n), py \in {None} \cup {Some(l) : l \in Lists(Payloads, n)}, i \in {None} \cup {Some(l) : l \in Lists(Ids, n)}} : n \in 1..MaxBatch}

\* The filters callers pass to search and list: none, legacy dicts, and the
\* two builders of SampleHeap (P's build() raises, B's returns).
FilterArgs == {NoneArg, DictArg(<<>>), DictArg(<<<<"f", Scalar(1)>>>>), BuilderArg("P"), BuilderArg("B")}

Present(pts) == {i \in DOMAIN pts : pts[i] # None}

\* What the engine may answer to a query bounded by limit: stored points, no
\* point twice, at most limit of them, in the engine's order.
Answers(pts, limit) == {l \in UNION {Lists(Present(pts), n) : n \in 0..limit} : \A i, j \in DOMAIN l : i # j => l[i] # l[j]}

\* The hits of query_points: ranked by the engine, best first, each with its
\* score (here the number of hits it outranks or equals).
ScoredPoints(pts, l) == [i \in DOMAIN l |-> [id |-> l[i], score |-> Len(l) + 1 - i, payload |-> pts[l[i]][1].payload, vector |-> None]]

\* Python's list and tuple, told apart.
PyList(items) == [type |-> "list", items |-> items]

PyTuple(items) == [type |-> "tuple", items |-> items]

\* The records of scroll(with_payload=True, with_vectors=False).
Records(pts, l) == [i \in DOMAIN l |-> [id |-> l[i], payload |-> pts[l[i]][1].payload, vector |-> None]]

Done(op, args, failing, o) ==
    /\ collections' = o.collections
    /\ points' = o.points
    /\ last' = [op |-> op, args |-> args, raised |-> o.raised, error |-> o.error, value |-> o.value, calls |-> o.calls, sent |-> o.sent, failing |-> failing]
    /\ UNCHANGED <<builders, filters, compiled, db, threads>>

\* Qdrant.__init__ has run create_col on an engine that did or did not hold
\* the collection already: the collection exists, with some configuration.
InitStore ==
    /\ builders = SampleHeap
    /\ filters = None
    /\ compiled = None
    /\ \E c \in Configs : collections = <<c>>
    /\ points = [i \in PointIds |-> None]
    /\ db = NoDatabase
    /\ threads = NoThreads
    /\ last = [op |-> "init"]

CreateCol(vector_size, on_disk, distance, failing) ==
    /\ Done("create_col", [vector_size |-> vector_size, on_disk |-> on_disk, distance |-> distance], failing, create_col(vector_size, on_disk, distance, failing))

DeleteCol(failing) ==
    /\ Done("delete_col", <<>>, failing, delete_col(failing))

Insert(b, failing) ==
    /\ Done("insert", b, failing, insert(b.vectors, b.payloads, b.ids, failing))

Update(vector_id, vector, payload, failing) ==
    /\ \E accepts_none \in BOOLEAN :
        Done("update", [vector_id |-> vector_id, vector |-> vector, payload |-> payload], failing, update(vector_id, vector, payload, accepts_none, failing))

GetById(vector_id, failing) ==
    /\ Done("get", [vector_id |-> vector_id], failing, get(vector_id, failing))

Delete(vector_id, failing) ==
    /\ Done("delete", [vector_id |-> vector_id], failing, delete(vector_id, failing))

ListCols(failing) ==
    /\ Done("list_cols", <<>>, failing, list_cols(failing))

ColInfo(failing) ==
    /\ Done("col_info", <<>>, failing, col_info(failing))

Search(f, limit, failing) ==
    \E answer \in Answers(points, limit) :
        Done("search", [filters |-> f, limit |-> limit], failing, search(builders, f, limit, ScoredPoints(points, answer), failing))

List(f, limit, failing) ==
    \E answer \in Answers(points, limit), next_offset \in {None} \cup {Some(i) : i \in Present(points)} :
        Done("list", [filters |-> f, limit |-> limit], failing, list(builders, f, limit, PyTuple(<<PyList(Records(points, answer)), next_offset>>), failing))

\* Every backend call is served.
NoFailure == {}

NextStore ==
    \/ \E c \in Configs : CreateCol(c.size, c.on_disk, c.distance, NoFailure)
    \/ DeleteCol(NoFailure)
    \/ \E b \in Batches : Insert(b, NoFailure)
    \/ \E id \in Ids, vector \in {None} \cup {Some(v) : v \in Vectors}, payload \in {None} \cup {Some(py) : py \in Payloads} : Update(id, vector, payload, NoFailure)
    \/ \E id \in Ids : GetById(id, NoFailure)
    \/ \E id \in Ids : Delete(id, NoFailure)
    \/ ListCols(NoFailure)
    \/ ColInfo(NoFailure)

\* CRUD and collection lifecycle.
SpecStore == InitStore /\ [][NextStore]_vars

NextQuery ==
    \/ \E c \in Configs : CreateCol(c.size, c.on_disk, c.distance, NoFailure)
    \/ DeleteCol(NoFailure)
    \/ \E b \in {x \in Batches : x.payloads # None /\ x.ids # None} : Insert(b, NoFailure)
    \/ \E f \in FilterArgs, limit \in Limits : Search(f, limit, NoFailure)
    \/ \E f \in FilterArgs, limit \in Limits : List(f, limit, NoFailure)

\* search and list over the collection and its points.
SpecQuery == InitStore /\ [][NextQuery]_vars

---------------------------------------------------------------------------
(* Claims about the store *)

Named(cols) == {i \in DOMAIN cols : cols[i].name = CollectionName}

\* C5: update(id, vector?, payload?) replaces only the supplied fields of the
\* stored record: with no vector the stored embedding is unchanged, with no
\* payload the stored payload is unchanged; an omitted field is never
\* cleared.
C5_UpdateKeepsOmittedFields ==
    [][(last'.op = "update" /\ Exists(collections) /\ points[last'.args.vector_id] # None) =>
          LET id == last'.args.vector_id
              old == points[id][1]
          IN /\ points'[id] # None
             /\ last'.args.vector = None => points'[id][1].vector = old.vector
             /\ last'.args.payload = None => points'[id][1].payload = old.payload
             /\ (~last'.raised /\ last'.args.vector # None) => points'[id][1].vector = last'.args.vector
             /\ (~last'.raised /\ last'.args.payload # None) => points'[id][1].payload = last'.args.payload]_vars

\* C6: insert([v], [p], [x]) followed by get(x), with nothing in between,
\* returns a record whose embedding is v and whose payload is p.
C6_InsertGetRoundTrip ==
    [][(/\ last.op = "insert"
        /\ ~last.raised
        /\ Len(last.args.vectors) = 1
        /\ last.args.payloads # None
        /\ last.args.ids # None
        /\ last'.op = "get"
        /\ last'.args.vector_id = last.args.ids[1][1]) =>
          /\ ~last'.raised
          /\ last'.value # None
          /\ last'.value[1].payload = Some(last.args.payloads[1][1])
          /\ last'.value[1].vector = Some(last.args.vectors[1])]_vars

\* C7: whenever the collection already exists, create_col returns without
\* raising and without a create call to the backend, whatever dimension,
\* persistence mode or metric is asked for, and the existing collection is
\* left as it is; after create_col there is exactly one collection of the
\* name (also when it was absent before, and so after two calls).
C7_CreateColIdempotent ==
    [][last'.op = "create_col" =>
          /\ ~last'.raised
          /\ Exists(collections) => (collections' = collections /\ last'.calls = <<"get_collections">>)
          /\ ~Exists(collections) => last'.calls = <<"get_collections", "create_collection">>
          /\ Cardinality(Named(collections')) = 1]_vars

\* create_col has returned on an existing collection whose dimension, metric
\* and persistence mode all differ from the ones asked for.
C7_Witness ==
    /\ last.op = "create_col"
    /\ ~last.raised
    /\ last.calls = <<"get_collections">>
    /\ Len(collections) = 1
    /\ collections[1].size # last.args.vector_size
    /\ collections[1].distance # last.args.distance
    /\ collections[1].on_disk # last.args.on_disk

\* C9: when search(filters=f) or list(filters=f) fails because f.build()
\* raises, the error is raised before any backend call: no query_points or
\* scroll call has been issued.
C9_FilterErrorBeforeBackendCall ==
    last.op \in {"search", "list"} =>
        /\ (last.args.filters.type = "FilterBase" /\ build(builders[last.args.filters.ref]).raised) =>
              (last.raised /\ last.error = "ValueError" /\ last.calls = <<>>)
        /\ (last.raised /\ last.error = "ValueError") => last.calls = <<>>

\* search was called with a builder whose build() raises, on an existing
\* collection that holds a point.
C9_Witness ==
    /\ last.op = "search"
    /\ last.raised
    /\ last.error = "ValueError"
    /\ Exists(collections)
    /\ Present(points) # {}

\* C11: None and the empty mapping compile to no filter: _create_filter
\* returns None for both, and search and list called with either issue their
\* one backend query with no filter (None), so the query is unfiltered and,
\* on an existing collection, returns.
C11_NoFilterForNoneOrEmpty ==
    (last.op \in {"search", "list"} /\ (last.args.filters = NoneArg \/ last.args.filters = DictArg(<<>>))) =>
        /\ _create_filter(builders, NoneArg) = Return(None)
        /\ _create_filter(builders, DictArg(<<>>)) = Return(None)
        /\ last.calls = <<IF last.op = "search" THEN "query_points" ELSE "scroll">>
        /\ (IF last.op = "search" THEN last.sent[1].query_filter ELSE last.sent[1].scroll_filter) = None
        /\ last.sent[1].limit = last.args.limit
        /\ Exists(collections) => ~last.raised

\* list(filters={}) has returned on a collection that holds a point.
C11_Witness ==
    /\ last.op = "list"
    /\ last.args.filters = DictArg(<<>>)
    /\ ~last.raised
    /\ Present(points) # {}

\* C12: on an existing collection get(id) returns the full stored record of
\* that id, its vector and its payload, when one is stored, and None when
\* none is; it never returns a record for an id that holds none.
C12_GetReturnsFullRecordOrNone ==
    (last.op = "get" /\ Exists(collections)) =>
        LET id == last.args.vector_id
        IN /\ ~last.raised
           /\ points[id] = None => last.value = None
           /\ points[id] # None =>
                 /\ last.value # None
                 /\ last.value[1].id = id
                 /\ last.value[1].payload = points[id][1].payload
                 /\ last.value[1].vector = points[id][1].vector

\* C13: on an existing collection delete(id) does not raise and removes
\* exactly the record of that id: every other record is unchanged, a
\* delete of an id that holds no record changes nothing, and a get(id)
\* that follows signals not found (None).
C13_DeleteRemovesExactlyOne ==
    [][/\ (last'.op = "delete" /\ Exists(collections)) =>
             LET id == last'.args.vector_id
             IN /\ ~last'.raised
                /\ points'[id] = None
                /\ \A j \in DOMAIN points \ {id} : points'[j] = points[j]
                /\ points[id] = None => points' = points
                /\ collections' = collections
                /\ last'.calls = <<"delete">>
                /\ last'.sent[1].points = <<id>>
       /\ (last.op = "delete" /\ ~last.raised /\ last'.op = "get" /\ last'.args.vector_id = last.args.vector_id) =>
             (~last'.raised /\ last'.value = None)]_vars

\* delete(id) has returned and the record of another id is still stored.
C13_Witness ==
    /\ last.op = "delete"
    /\ ~last.raised
    /\ points[last.args.vector_id] = None
    /\ \E j \in Present(points) : j # last.args.vector_id /\ points[j][1].payload = Some([k |-> 1])

---------------------------------------------------------------------------
(* insert with batches of several vectors *)

\* Bound of the model: the vectors of one insert call.
MaxVectors == 2

\* The ids callers pass and the positional ids of a batch.
InsertIds == Ids \cup 0..(MaxVectors - 1)

\* Batches of n vectors, the vector at position i being <<i>>, with or
\* without payloads and with or without ids (ids may repeat).
InsertBatches == UNION {{[vectors |-> [k \in 1..n |-> <<k>>], payloads |-> py, ids |-> i] : py \in {None} \cup {Some(l) : l \in Lists(Payloads, n)}, i \in {None} \cup {Some(l) : l \in Lists(Ids, n)}} : n \in 1..MaxVectors}

InitInsert ==
    /\ builders = SampleHeap
    /\ filters = None
    /\ compiled = None
    /\ collections = <<VectorParams(1, "Cosine", FALSE)>>
    /\ points = [i \in InsertIds |-> None]
    /\ db = NoDatabase
    /\ threads = NoThreads
    /\ last = [op |-> "init"]

NextInsert ==
    \/ \E b \in InsertBatches : Insert(b, NoFailure)
    \/ DeleteCol(NoFailure)
    \/ CreateCol(1, FALSE, "Cosine", NoFailure)

SpecInsert == InitInsert /\ [][NextInsert]_vars

\* The id and the payload insert gives the record of position i (from 1).
ExpectedId(b, i) == IF b.ids = None THEN i - 1 ELSE b.ids[1][i]

ExpectedPayload(b, i) == IF b.payloads = None THEN <<>> ELSE b.payloads[1][i]

\* C14: insert(vectors, payloads?, ids?) issues a single upsert with
\* len(vectors) points; the point of vectors[i] has id ids[i] when ids is
\* given and the positional index i (from 0) otherwise, and payload
\* payloads[i] when payloads is given and the empty payload otherwise; on an
\* existing collection each of these records is stored (the last one of an
\* id that repeats) and no other record changes.
C14_InsertOnePointPerVector ==
    [][last'.op = "insert" =>
          LET b == last'.args
              n == Len(b.vectors)
          IN /\ last'.calls = <<"upsert">>
             /\ Len(last'.sent[1].points) = n
             /\ \A i \in 1..n : last'.sent[1].points[i] = PointStruct(ExpectedId(b, i), Some(b.vectors[i]), Some(ExpectedPayload(b, i)))
             /\ Exists(collections) =>
                   /\ ~last'.raised
                   /\ \A i \in 1..n : (\A j \in (i + 1)..n : ExpectedId(b, j) # ExpectedId(b, i)) =>
                         points'[ExpectedId(b, i)] = Some([vector |-> Some(b.vectors[i]), payload |-> Some(ExpectedPayload(b, i))])
                   /\ \A id \in DOMAIN points \ {ExpectedId(b, i) : i \in 1..n} : points'[id] = points[id]]_vars

\* An insert of two vectors without ids and without payloads has stored
\* them under ids 0 and 1 with empty payloads.
C14_Witness ==
    /\ last.op = "insert"
    /\ ~last.raised
    /\ Len(last.args.vectors) = 2
    /\ last.args.ids = None
    /\ last.args.payloads = None
    /\ points[0] = Some([vector |-> Some(<<1>>), payload |-> Some(<<>>)])
    /\ points[1] = Some([vector |-> Some(<<2>>), payload |-> Some(<<>>)])

---------------------------------------------------------------------------
(* class FilterBase: the defaults a builder inherits for the methods its     *)
(* class does not override.                                                 *)

ConditionMethods == {"match", "match_any", "match_except", "range", "has_id", "has_vector", "is_empty", "is_null", "values_count", "geo_bounding_box", "geo_radius", "geo_polygon"}

\* The condition and composition methods a builder is called with.
BuilderMethods == ConditionMethods \cup Slots

\* The methods FilterBase defines besides the abstract build().
FilterBaseDefaults == {"match", "match_any", "match_except", "range", "has_id", "has_vector", "is_empty", "is_null", "values_count", "must", "should", "must_not"}

\* A call of a method the object's class does not override: the default of
\* FilterBase runs when there is one, and the attribute lookup fails when
\* there is none.
FilterBase_call(method) ==
    IF method \in FilterBaseDefaults
    THEN Raise("NotImplementedError")
    ELSE Raise("AttributeError")

\* Subclasses of FilterBase by the methods they override (build apart).
Subclasses == SUBSET {"match", "range", "geo_radius", "must"}

InitBase ==
    /\ builders \in [BuilderIds -> {[overrides |-> S] : S \in Subclasses}]
    /\ filters = None
    /\ compiled = None
    /\ collections = <<>>
    /\ points = <<>>
    /\ db = NoDatabase
    /\ threads = NoThreads
    /\ last = [op |-> "init"]

\* A call of an overridden method runs the subclass's code, not FilterBase's.
CallUnimplemented(b, method) ==
    /\ method \notin builders[b].overrides
    /\ last' = [op |-> "call", target |-> b, method |-> method, result |-> FilterBase_call(method)]
    /\ UNCHANGED <<builders, filters, compiled, collections, points, db, threads>>

NextBase == \E b \in BuilderIds, method \in BuilderMethods : CallUnimplemented(b, method)

SpecBase == InitBase /\ [][NextBase]_vars

\* C15: on a builder whose class does not implement it, a call of any of the
\* twelve condition methods or three composition methods raises
\* NotImplementedError.
C15_UnimplementedRaisesNotImplemented ==
    last.op = "call" =>
        /\ last.result.raised
        /\ last.result.error = "NotImplementedError"

---------------------------------------------------------------------------
(* The twelve condition methods of QdrantFilter under their callers *)

Call(method, args) == [method |-> method, args |-> args]

\* Mappings with lon and lat, as callers pass them to the geo methods.
Here == [lon |-> 2, lat |-> 1]

There == [lon |-> 4, lat |-> 3]

\* The calls callers make, one or two of each method.
ConditionCalls ==
    <<Call("match", <<"f", Scalar(1)>>),
      Call("match", <<"g", Scalar(1)>>),
      Call("match_any", <<"f", <<Scalar(1), Scalar(2)>>>>),
      Call("match_except", <<"f", <<Scalar(1), Scalar(2)>>>>),
      Call("range", <<"f", Some(1), None, None, Some(2)>>),
      Call("has_id", <<<<1, 2>>>>),
      Call("has_vector", <<"v">>),
      Call("is_empty", <<"f">>),
      Call("is_null", <<"f">>),
      Call("values_count", <<"f", Some(1), None, Some(2), None>>),
      Call("geo_bounding_box", <<"f", Here, There>>),
      Call("geo_radius", <<"f", Here, 5>>),
      Call("geo_polygon", <<"f", <<Here, There>>, None>>),
      Call("geo_polygon", <<"f", <<Here, There>>, Some(<<<<There, Here>>>>)>>)>>

Invoke(heap, self, call) ==
    LET a == call.args
    IN CASE call.method = "match" -> match(heap, self, a[1], a[2])
         [] call.method = "match_any" -> match_any(heap, self, a[1], a[2])
         [] call.method = "match_except" -> match_except(heap, self, a[1], a[2])
         [] call.method = "range" -> range(heap, self, a[1], a[2], a[3], a[4], a[5])
         [] call.method = "has_id" -> has_id(heap, self, a[1])
         [] call.method = "has_vector" -> has_vector(heap, self, a[1])
         [] call.method = "is_empty" -> is_empty(heap, self, a[1])
         [] call.method = "is_null" -> is_null(heap, self, a[1])
         [] call.method = "values_count" -> values_count(heap, self, a[1], a[2], a[3], a[4], a[5])
         [] call.method = "geo_bounding_box" -> geo_bounding_box(heap, self, a[1], a[2], a[3])
         [] call.method = "geo_radius" -> geo_radius(heap, self, a[1], a[2], a[3])
         [] call.method = "geo_polygon" -> geo_polygon(heap, self, a[1], a[2], a[3])

\* P is a fresh builder and B holds a must slot.
InitFlat ==
    /\ builders = must(EmptyHeap, "B", Obj(FieldConditionMatch("g", MatchValue(Scalar(1)))))
    /\ filters = None
    /\ compiled = None
    /\ collections = <<>>
    /\ points = <<>>
    /\ db = NoDatabase
    /\ threads = NoThreads
    /\ last = [op |-> "init"]

\* b.method(*args), which returns self.
Condition(b, call) ==
    /\ Len(builders["P"].conditions) + Len(builders["B"].conditions) < MaxConds
    /\ builders' = Invoke(builders, b, call)
    /\ last' = [op |-> call.method, target |-> b, call |-> call, returned |-> b]
    /\ UNCHANGED <<filters, compiled, collections, points, db, threads>>

NextFlat ==
    \/ \E b \in BuilderIds, i \in DOMAIN ConditionCalls : Condition(b, ConditionCalls[i])
    \/ \E b \in BuilderIds : Build(b)

SpecFlat == InitFlat /\ [][NextFlat]_vars

\* The kind of a condition: its class, and for a FieldCondition the one of
\* its fields that is set.
Kind(c) ==
    IF c.type = "FieldCondition"
    THEN CHOOSE k \in DOMAIN c \ {"type", "key"} : IsSet(c[k])
    ELSE c.type

KindOf(method) ==
    CASE method \in {"match", "match_any", "match_except"} -> "match"
      [] method = "has_id" -> "HasIdCondition"
      [] method = "has_vector" -> "HasVectorCondition"
      [] method = "is_empty" -> "IsEmptyCondition"
      [] method = "is_null" -> "IsNullCondition"
      [] OTHER -> method

\* C16: a condition method appends exactly one condition, of its kind, to
\* the end of the builder's flat list, leaves the three slots and every
\* other builder unchanged and returns the same builder; build() on a builder
\* with flat conditions only returns a filter whose must group is exactly
\* the flat list, in call order, with should and must_not unset.
C16_ConditionAppendsOne ==
    [][last'.op \in ConditionMethods =>
          LET b == last'.target
              old == builders[b].conditions
              new == builders'[b].conditions
          IN /\ Len(new) = Len(old) + 1
             /\ SubSeq(new, 1, Len(old)) = old
             /\ Kind(new[Len(new)]) = KindOf(last'.op)
             /\ \A t \in Slots : builders'[b][t] = builders[b][t]
             /\ \A o \in BuilderIds \ {b} : builders'[o] = builders[o]
             /\ last'.returned = b
             /\ ~UsesSlots(builders'[b]) => build(builders'[b]) = Return(Filter(Some(new), None, None))]_vars

\* A geo_polygon call has followed another condition on P, and build() of P
\* gives the two in call order.
C16_Witness ==
    /\ last.op = "geo_polygon"
    /\ last.target = "P"
    /\ Len(builders["P"].conditions) = 2
    /\ Kind(builders["P"].conditions[1]) # "geo_polygon"
    /\ build(builders["P"]).value.must[1][2].geo_polygon # None

---------------------------------------------------------------------------
(* Claims about search and list (SpecQuery) *)

\* What search and list hand to the backend as the filter.
QueryFilter(f) == IF Truthy(f) THEN _create_filter(builders, f).value ELSE None

\* C17: list(filters, limit) issues one scroll with the compiled filter and
\* the limit, and returns a list of at most limit records, each with its
\* payload and without its vector: the list itself, not a pair or a cursor
\* around it.
C17_ListReturnsRecords ==
    (last.op = "list" /\ ~last.raised) =>
        /\ last.calls = <<"scroll">>
        /\ last.sent[1].scroll_filter = QueryFilter(last.args.filters)
        /\ last.sent[1].limit = last.args.limit
        /\ last.value # None
        /\ last.value[1].type = "list"
        /\ Len(last.value[1].items) <= last.args.limit
        /\ \A i \in DOMAIN last.value[1].items :
              LET record == last.value[1].items[i]
              IN /\ record.id \in Present(points)
                 /\ record.payload = points[record.id][1].payload
                 /\ record.vector = None

\* C18: search(query, vectors, limit, filters) issues exactly one
\* query_points with the compiled filter and the caller's limit, and
\* returns the backend's hits: at most limit of them, best first (scores
\* never increase along the sequence), each with id, score and payload.
C18_SearchReturnsRankedHits ==
    last.op = "search" =>
        /\ (~last.raised \/ last.error # "ValueError") =>
              /\ last.calls = <<"query_points">>
              /\ last.sent[1].query_filter = QueryFilter(last.args.filters)
              /\ last.sent[1].limit = last.args.limit
        /\ ~last.raised =>
              /\ last.value # None
              /\ Len(last.value[1]) <= last.args.limit
              /\ \A i \in DOMAIN last.value[1] :
                    LET hit == last.value[1][i]
                    IN /\ hit.id \in Present(points)
                       /\ hit.payload = points[hit.id][1].payload
                       /\ hit.score >= 1
                       /\ \A j \in DOMAIN last.value[1] : i < j => (hit.score >= last.value[1][j].score /\ hit.id # last.value[1][j].id)

\* search with a builder filter and limit 2 has returned two hits.
C18_Witness ==
    /\ last.op = "search"
    /\ ~last.raised
    /\ last.args.filters = BuilderArg("B")
    /\ last.args.limit = 2
    /\ Len(last.value[1]) = 2
    /\ last.sent[1].query_filter # None

---------------------------------------------------------------------------
(* The store on a backend that may fail to serve a call *)

\* At most one of the client calls an operation makes is not served.
Failures(made) == {NoFailure} \cup {{c} : c \in made}

NextFault ==
    \/ \E failing \in Failures({"get_collections", "create_collection"}) : CreateCol(1, FALSE, "Cosine", failing)
    \/ \E failing \in Failures({"delete_collection"}) : DeleteCol(failing)
    \/ \E id \in Ids, v \in Vectors, failing \in Failures({"upsert"}) : Insert([vectors |-> <<v>>, payloads |-> Some(<<[k |-> 1]>>), ids |-> Some(<<id>>)], failing)
    \/ \E id \in Ids, v \in Vectors, failing \in Failures({"upsert"}) : Update(id, Some(v), Some(<<>>), failing)
    \/ \E id \in Ids, failing \in Failures({"retrieve"}) : GetById(id, failing)
    \/ \E id \in Ids, failing \in Failures({"delete"}) : Delete(id, failing)
    \/ \E failing \in Failures({"get_collections"}) : ListCols(failing)
    \/ \E failing \in Failures({"get_collection"}) : ColInfo(failing)
    \/ \E f \in {NoneArg, BuilderArg("B")}, limit \in Limits, failing \in Failures({"query_points"}) : Search(f, limit, failing)
    \/ \E f \in {NoneArg, BuilderArg("B")}, limit \in Limits, failing \in Failures({"scroll"}) : List(f, limit, failing)

SpecFault == InitInsert /\ [][NextFault]_vars

StoreOps == {"create_col", "insert", "search", "delete", "update", "get", "list_cols", "delete_col", "col_info", "list"}

\* C19: when a backend call made by one of the ten operations is not
\* served, the operation raises that failure and the failed call is the
\* last backend call it issued: no call is repeated and none follows; an
\* operation whose calls are all served does not raise that failure.
C19_BackendFailurePropagates ==
    last.op \in StoreOps =>
        /\ (\E i \in DOMAIN last.calls : last.calls[i] \in last.failing) =>
              /\ last.raised
              /\ last.error = "Unavailable"
              /\ last.calls[Len(last.calls)] \in last.failing
              /\ \A i \in 1..(Len(last.calls) - 1) : last.calls[i] \notin last.failing
        /\ (last.raised /\ last.error = "Unavailable") => (last.calls # <<>> /\ last.calls[Len(last.calls)] \in last.failing)
        /\ (last.raised /\ last.error = "Backend") => Len(last.calls) \in {1, 2}

\* create_col listed the collections, found the name absent, and its
\* create call was not served.
C19_Witness ==
    /\ last.op = "create_col"
    /\ last.failing = {"create_collection"}
    /\ last.raised
    /\ last.calls = <<"get_collections", "create_collection">>
    /\ ~Exists(collections)

---------------------------------------------------------------------------
(* class SQLiteManager (mem0/memory/storage.py): the history ledger.        *)
(* db is the manager: its db_path and the committed content of the database *)
(* file, which is what a new connection to a file path sees. The content    *)
(* is the history table: absent (None) or its schema and rows in rowid      *)
(* order. Every database section opens its own connection and closes it.    *)

Memory == ":memory:"

NoTable == None

Table(schema, rows) == Some([schema |-> schema, rows |-> rows])

\* sqlite3.connect(db_path): ":memory:" is a new, empty database private to
\* the connection; a file path gives the committed content of the file.
Connect(d) == IF d.db_path = Memory THEN NoTable ELSE d.file

\* conn.close(): what the connection committed stays in the file; changes of
\* a transaction that was not committed are discarded, and so is the
\* private database of ":memory:".
Close(d, content, committed) == IF committed /\ d.db_path # Memory THEN [d EXCEPT !.file = content] ELSE d

\* A row of the table before the migration and the row it becomes:
\* INSERT INTO history (...) SELECT id, memory_id, prev_value, new_value,
\* new_value, event, timestamp, timestamp, is_deleted FROM old_history.
Migrated(old) == [id |-> old.id, memory_id |-> old.memory_id, old_memory |-> old.prev_value, new_memory |-> old.new_value, new_value |-> old.new_value, event |-> old.event, created_at |-> old.timestamp, updated_at |-> old.timestamp, is_deleted |-> old.is_deleted]

\* The table is renamed, created anew, filled from the old one, and the
\* transaction is committed, when its schema is not the expected one.
_migrate_history_table(d) ==
    LET content == Connect(d)
    IN IF content # NoTable /\ content[1].schema # "expected"
       THEN Close(d, Table("expected", [i \in DOMAIN content[1].rows |-> Migrated(content[1].rows[i])]), TRUE)
       ELSE Close(d, content, FALSE)

\* CREATE TABLE IF NOT EXISTS: a schema statement opens no transaction, so
\* it is in the database as soon as it has run.
_create_history_table(d) ==
    LET content == Connect(d)
    IN Close(d, IF content = NoTable THEN Table("expected", <<>>) ELSE content, TRUE)

\* SQLiteManager(db_path) on a database file with the given content.
SQLiteManager(db_path, file) == _create_history_table(_migrate_history_table([db_path |-> db_path, file |-> file]))

\* The INSERT runs in the transaction the connection opens for it; the
\* section never commits, and the connection is closed on leaving it. id is
\* the uuid4 drawn for the row.
add_history(d, id, memory_id, old_memory, new_memory, event, created_at, updated_at, is_deleted) ==
    LET content == Connect(d)
        row == [id |-> id, memory_id |-> memory_id, old_memory |-> old_memory, new_memory |-> new_memory, new_value |-> None, event |-> event, created_at |-> created_at, updated_at |-> updated_at, is_deleted |-> is_deleted]
    IN IF content = NoTable
       THEN [raised |-> TRUE, error |-> "OperationalError", value |-> None, db |-> Close(d, content, FALSE)]
       ELSE [raised |-> FALSE, error |-> "", value |-> None, db |-> Close(d, Table(content[1].schema, Append(content[1].rows, row)), FALSE)]

\* ORDER BY updated_at ASC: NULL sorts first.
NotAfter(a, b) == a = None \/ (b # None /\ a[1] <= b[1])

\* The results the engine may give for WHERE memory_id = ? ORDER BY
\* updated_at ASC: the matching rows in an order that is sorted by
\* updated_at (rows with equal updated_at in either order).
Selected(rows, memory_id) ==
    LET matching == {i \in DOMAIN rows : rows[i].memory_id = memory_id}
        orders == {o \in [1..Cardinality(matching) -> matching] : (\A i, j \in DOMAIN o : i # j => o[i] # o[j]) /\ (\A i, j \in DOMAIN o : i < j => NotAfter(rows[o[i]].updated_at, rows[o[j]].updated_at))}
    IN {[i \in DOMAIN o |-> rows[o[i]]] : o \in orders}

\* The dict get_history makes of a row.
Entry(row) == [id |-> row.id, memory_id |-> row.memory_id, old_memory |-> row.old_memory, new_memory |-> row.new_memory, event |-> row.event, created_at |-> row.created_at, updated_at |-> row.updated_at]

\* fetched is the result the engine gave, one of Selected.
get_history(d, memory_id, fetched) ==
    LET content == Connect(d)
    IN IF content = NoTable
       THEN [raised |-> TRUE, error |-> "OperationalError", value |-> None, db |-> Close(d, content, FALSE)]
       ELSE [raised |-> FALSE, error |-> "", value |-> Some([i \in DOMAIN fetched |-> Entry(fetched[i])]), db |-> Close(d, content, FALSE)]

---------------------------------------------------------------------------
(* The ledger under its callers *)

\* Bound of the model: the rows of the history table.
MaxRows == 3

MemoryIds == {"m1", "m2"}

Timestamps == {None, Some(1), Some(2)}

\* What the database file holds when the manager is constructed: nothing,
\* a table of an earlier schema, or the table a manager left there.
PriorFiles ==
    {NoTable,
     Table("expected", <<>>),
     Table("old", <<[id |-> 1, memory_id |-> "m1", prev_value |-> None, new_value |-> Some("a"), event |-> "ADD", timestamp |-> Some(2), is_deleted |-> 0],
                    [id |-> 2, memory_id |-> "m1", prev_value |-> Some("a"), new_value |-> Some("b"), event |-> "UPDATE", timestamp |-> Some(1), is_deleted |-> 0]>>)}

\* The rows a new connection sees.
History(d) == IF Connect(d) = NoTable THEN <<>> ELSE Connect(d)[1].rows

InitLedger ==
    /\ builders = EmptyHeap
    /\ filters = None
    /\ compiled = None
    /\ collections = <<>>
    /\ points = <<>>
    /\ \E db_path \in {Memory, "history.db"}, file \in PriorFiles : db = SQLiteManager(db_path, file)
    /\ threads = NoThreads
    /\ last = [op |-> "init"]

AddHistory(memory_id, old_memory, new_memory, event, created_at, updated_at) ==
    /\ Len(History(db)) < MaxRows
    /\ LET o == add_history(db, Len(History(db)) + 1, memory_id, old_memory, new_memory, event, created_at, updated_at, 0)
       IN /\ db' = o.db
          /\ last' = [op |-> "add_history", args |-> [memory_id |-> memory_id, old_memory |-> old_memory, new_memory |-> new_memory, event |-> event, created_at |-> created_at, updated_at |-> updated_at], raised |-> o.raised, error |-> o.error, value |-> o.value]
    /\ UNCHANGED <<builders, filters, compiled, collections, points, threads>>

GetHistory(memory_id) ==
    /\ \E fetched \in Selected(History(db), memory_id) :
          LET o == get_history(db, memory_id, fetched)
          IN /\ db' = o.db
             /\ last' = [op |-> "get_history", args |-> [memory_id |-> memory_id], raised |-> o.raised, error |-> o.error, value |-> o.value]
    /\ UNCHANGED <<builders, filters, compiled, collections, points, threads>>

NextLedger ==
    \/ \E m \in MemoryIds, old \in {None, Some("a")}, new \in {Some("a"), Some("b")}, event \in {"ADD", "UPDATE"}, created_at \in {None, Some(1)}, updated_at \in Timestamps : AddHistory(m, old, new, event, created_at, updated_at)
    \/ \E m \in MemoryIds : GetHistory(m)

SpecLedger == InitLedger /\ [][NextLedger]_vars

\* The entry add_history(args) adds, whatever its id.
IsEntryOf(entry, args) ==
    /\ entry.memory_id = args.memory_id
    /\ entry.old_memory = args.old_memory
    /\ entry.new_memory = args.new_memory
    /\ entry.event = args.event
    /\ entry.created_at = args.created_at
    /\ entry.updated_at = args.updated_at

\* C20: the ledger is append-only and keyed by record id: add_history
\* returns and adds its entry to the history, keeping every earlier row;
\* get_history(m) returns exactly the entries held for memory_id m, each
\* with its old and new value, event and timestamps, ordered by updated_at
\* ascending; so an entry once added is in every later get_history(m).
C20_LedgerAppendOnly ==
    [][/\ last'.op = "add_history" =>
             /\ ~last'.raised
             /\ Len(History(db')) = Len(History(db)) + 1
             /\ SubSeq(History(db'), 1, Len(History(db))) = History(db)
             /\ IsEntryOf(History(db')[Len(History(db'))], last'.args)
       /\ last'.op = "get_history" =>
             /\ ~last'.raised
             /\ History(db') = History(db)
             /\ \E fetched \in Selected(History(db), last'.args.memory_id) : last'.value = Some([i \in DOMAIN fetched |-> Entry(fetched[i])])]_vars

---------------------------------------------------------------------------
(* Further claims about the compiler (SpecCompiler) *)

\* C21: compiling a legacy mapping of n >= 1 entries returns one filter
\* whose must group holds exactly n conditions, the i-th on the i-th key of
\* the mapping's iteration order, and whose should and must_not groups are
\* unset.
C21_LegacyEntriesUnderOneAnd ==
    (compiled # None /\ filters.type = "dict" /\ filters.items # <<>>) =>
        /\ ~compiled[1].raised
        /\ IsSet(compiled[1].value)
        /\ compiled[1].value[1].type = "Filter"
        /\ IsSet(compiled[1].value[1].must)
        /\ Len(compiled[1].value[1].must[1]) = Len(filters.items)
        /\ \A i \in 1..Len(filters.items) :
              /\ compiled[1].value[1].must[1][i].type = "FieldCondition"
              /\ compiled[1].value[1].must[1][i].key = filters.items[i][1]
        /\ compiled[1].value[1].should = None
        /\ compiled[1].value[1].must_not = None

\* A mapping of two entries, a range on "g" before a scalar on "f", has been
\* compiled.
C21_Witness ==
    /\ compiled # None
    /\ filters.type = "dict"
    /\ Len(filters.items) = 2
    /\ filters.items[1][1] = "g"
    /\ HasRangeKey(filters.items[1][2])
    /\ filters.items[2][2].type = "scalar"
    /\ IsSet(compiled[1].value[1].must[1][1].range)
    /\ IsSet(compiled[1].value[1].must[1][2].match)

---------------------------------------------------------------------------
(* Further claims about the builder (SpecBuilder) *)

\* C22 as stated: composing B into a parent aliases B's flat list with the
\* parent's slot, so that a condition appended to B right after P.must(B)
\* (or should, must_not) is at the end of that slot of P as well, with no
\* further composition call.
C22_CompositionAliases ==
    [][(/\ last.op \in Slots
        /\ last.arg.isFilter
        /\ last.arg.ref # last.target
        /\ last'.op = "match"
        /\ last'.target = last.arg.ref) =>
          LET B == builders'[last'.target].conditions
          IN builders'[last.target][last.op] = Append(builders[last.target][last.op], B[Len(B)])]_vars

\* C22 amended: a composition call copies the conditions B holds at the time
\* of the call; a condition appended to B afterwards goes to B's flat list
\* only: every slot of B and every other builder, P's slots included, are
\* as they were.
C22_CompositionCopies ==
    [][last'.op = "match" =>
          LET b == last'.target
          IN /\ builders'[b].conditions = Append(builders[b].conditions, FieldConditionMatch(last'.key, MatchValue(last'.value)))
             /\ \A t \in Slots : builders'[b][t] = builders[b][t]
             /\ \A o \in BuilderIds \ {b} : builders'[o] = builders[o]]_vars

\* B was composed into P's must and should slots and has got one more
\* condition since: both slots hold B's flat list without its last element.
C22_Witness ==
    /\ last.op = "match"
    /\ last.target = "B"
    /\ Len(builders["B"].conditions) = 2
    /\ builders["P"].must = <<builders["B"].conditions[1]>>
    /\ builders["P"].should = <<builders["B"].conditions[1]>>

\* C25: the four lists of a builder only grow: every operation leaves each
\* list as a prefix of what it becomes, so a builder whose build() raises
\* the composition error raises it on every later build(), whatever
\* condition or composition calls come in between.
C25_ListsOnlyGrow ==
    [][/\ \A b \in BuilderIds :
             \/ builders'[b] = builders[b]
             \/ /\ \A l \in Slots \cup {"conditions"} :
                      /\ Len(builders'[b][l]) >= Len(builders[b][l])
                      /\ SubSeq(builders'[b][l], 1, Len(builders[b][l])) = builders[b][l]
                /\ build(builders[b]).raised => build(builders'[b]).raised
       /\ (last'.op = "build" /\ build(builders[last'.target]).raised) => (last'.result.raised /\ last'.result.error = "ValueError")]_vars

\* build() has raised on a builder that holds two flat conditions and
\* conditions in two of its slots.
C25_Witness ==
    /\ last.op = "build"
    /\ last.result.raised
    /\ Len(builders[last.target].conditions) = 2
    /\ builders[last.target].should # <<>>
    /\ builders[last.target].must_not # <<>>

---------------------------------------------------------------------------
(* Compilation among the builder's operations: build() and _create_filter  *)
(* on builders that keep changing.                                         *)

\* self._create_filter(f): reads the builder or the mapping and returns.
Compile(f) ==
    /\ last' = [op |-> "_create_filter", arg |-> f, result |-> _create_filter(builders, f)]
    /\ UNCHANGED <<builders, filters, compiled, collections, points, db, threads>>

NextPure ==
    \/ \E b \in BuilderIds : Match(b, "f", Scalar(1))
    \/ \E b \in BuilderIds, c \in BuilderIds : Must(b, FilterRef(c))
    \/ \E b \in BuilderIds : MustNot(b, Obj(FieldConditionMatch("g", MatchValue(Scalar(1)))))
    \/ \E b \in BuilderIds : Build(b)
    \/ \E f \in {NoneArg, DictArg(<<>>), DictArg(<<<<"f", Scalar(1)>>>>), DictArg(<<<<"f", Dict([gte |-> 1])>>>>)} \cup {BuilderArg(b) : b \in BuilderIds} : Compile(f)

SpecPure == InitBuilder /\ [][NextPure]_vars

\* C23: build() and _create_filter change no builder (flat list and slots
\* are the same before and after, also when build() raises) and nothing of
\* the backend, so the same call made again at once gives the same
\* outcome: the filter or error of the call is the one the call gives in
\* the state it leaves.
C23_CompilationIsPure ==
    [][last'.op \in {"build", "_create_filter"} =>
          /\ builders' = builders
          /\ collections' = collections
          /\ points' = points
          /\ last'.op = "build" => last'.result = build(builders'[last'.target])
          /\ last'.op = "_create_filter" => last'.result = _create_filter(builders', last'.arg)]_vars

\* build() has raised on a builder, which still holds its flat condition
\* and its slot.
C23_Witness ==
    /\ last.op = "build"
    /\ last.result.raised
    /\ builders[last.target].conditions # <<>>
    /\ builders[last.target].must_not # <<>>

(***************************************************************************)
(* Concurrent callers of create_col. The method has no lock: between       *)
(* its listing (line 218) and its creation (lines 224-227) another caller  *)
(* of the same store can run. threads holds, for each caller, where its    *)
(* call stands (pc), its arguments, the listing it received (response),    *)
(* the client calls it has made, and the exception that left it.           *)
(***************************************************************************)

Callers == {"t1", "t2"}

\* A caller that has entered create_col and made no client call yet.
Called(params) == [pc |-> "called", params |-> params, response |-> None, calls |-> <<>>, error |-> None]

\* Both callers have entered create_col of a store whose collection the
\* engine does not hold.
InitRace ==
    /\ builders = SampleHeap
    /\ filters = None
    /\ compiled = None
    /\ collections = <<>>
    /\ points = [i \in PointIds |-> None]
    /\ db = NoDatabase
    /\ \E c1 \in Configs, c2 \in Configs : threads = [t \in Callers |-> Called(IF t = "t1" THEN c1 ELSE c2)]
    /\ last = [op |-> "init"]

\* response = self.list_cols()
ListExisting(t) ==
    /\ threads[t].pc = "called"
    /\ threads' = [threads EXCEPT ![t] = [@ EXCEPT !.pc = "listed", !.response = list_cols(NoFailure).value, !.calls = Append(@, "get_collections")]]
    /\ last' = [op |-> "create_col", thread |-> t, step |-> "list_cols"]
    /\ UNCHANGED <<builders, filters, compiled, collections, points, db>>

\* The loop over response.collections found the name: return.
SkipCreation(t) ==
    /\ threads[t].pc = "listed"
    /\ Exists(threads[t].response[1])
    /\ threads' = [threads EXCEPT ![t] = [@ EXCEPT !.pc = "returned"]]
    /\ last' = [op |-> "create_col", thread |-> t, step |-> "return"]
    /\ UNCHANGED <<builders, filters, compiled, collections, points, db>>

\* The loop did not find the name: self.client.create_collection(...), on
\* the collections the engine holds by now.
CreateAbsent(t) ==
    /\ threads[t].pc = "listed"
    /\ ~Exists(threads[t].response[1])
    /\ LET r == CreateCollection(collections, threads[t].params)
       IN /\ collections' = IF r.raised THEN collections ELSE r.value
          /\ threads' = [threads EXCEPT ![t] = [@ EXCEPT !.pc = IF r.raised THEN "raised" ELSE "returned", !.error = IF r.raised THEN Some(r.error) ELSE None, !.calls = Append(@, "create_collection")]]
    /\ last' = [op |-> "create_col", thread |-> t, step |-> "create_collection"]
    /\ UNCHANGED <<builders, filters, compiled, points, db>>

NextRace ==
    \/ \E t \in Callers : ListExisting(t)
    \/ \E t \in Callers : SkipCreation(t)
    \/ \E t \in Callers : CreateAbsent(t)

SpecRace == InitRace /\ [][NextRace]_vars

Finished(t) == threads[t].pc \in {"returned", "raised"}

CreateCalls(t) == Len(SelectSeq(threads[t].calls, LAMBDA c : c = "create_collection"))

\* C24: when two concurrent create_col calls for the same, initially absent
\* collection have both ended, whatever the interleaving of their listing
\* and creation steps, at most one create_collection call has reached the
\* backend, neither call has raised, and the engine holds exactly one
\* collection of that name.
C24_ConcurrentCreateIsIdempotent ==
    (\A t \in Callers : Finished(t)) =>
        /\ CreateCalls("t1") + CreateCalls("t2") <= 1
        /\ \A t \in Callers : threads[t].pc = "returned"
        /\ Cardinality(Named(collections)) = 1

(***************************************************************************)
(* The database sections of one SQLiteManager under concurrent callers.    *)
(* Every section is                                                         *)
(*     with self._lock:                                                     *)
(*         with self._get_connection() as conn:  <statements>               *)
(* and _get_connection is: conn = sqlite3.connect(...); try: yield conn;    *)
(* finally: conn.close(). Here db holds the manager's _lock (TRUE when a    *)
(* thread has acquired it) beside db_path and file, and threads holds for   *)
(* each thread the section it runs (op), where it stands in it (pc),        *)
(* whether its connection is open (conn), the exception that is leaving the *)
(* section (error), and the sections of __init__ it has still to run        *)
(* (init).                                                                  *)
(***************************************************************************)

LedgerThreads == {"main", "t1", "t2"}

\* The sections __init__ runs, by the number of them left to run.
InitSection(left) == IF left = 2 THEN "_migrate_history_table" ELSE "_create_history_table"

Idle(left) == [pc |-> "idle", op |-> "", conn |-> FALSE, error |-> None, init |-> left]

\* Thread main is in __init__ after self._lock = threading.Lock(); the other
\* threads call the manager once main has constructed it.
InitSections ==
    /\ builders = EmptyHeap
    /\ filters = None
    /\ compiled = None
    /\ collections = <<>>
    /\ points = <<>>
    /\ \E db_path \in {Memory, "history.db"}, file \in PriorFiles : db = [db_path |-> db_path, file |-> file, _lock |-> FALSE]
    /\ threads = [t \in LedgerThreads |-> Idle(IF t = "main" THEN 2 ELSE 0)]
    /\ last = [op |-> "init"]

Constructed == \A t \in LedgerThreads : threads[t].init = 0

\* A thread calls a method of the manager: __init__ its next section, a
\* caller add_history or get_history of the constructed manager.
EnterSection(t, op) ==
    /\ threads[t].pc = "idle"
    /\ IF threads[t].init > 0 THEN op = InitSection(threads[t].init) ELSE Constructed /\ op \in {"add_history", "get_history"}
    /\ threads' = [threads EXCEPT ![t] = [@ EXCEPT !.pc = "entering", !.op = op, !.error = None]]
    /\ UNCHANGED <<builders, filters, compiled, collections, points, db, last>>

\* with self._lock: the thread waits until the lock is free and takes it.
AcquireLock(t) ==
    /\ threads[t].pc = "entering"
    /\ ~db._lock
    /\ db' = [db EXCEPT !._lock = TRUE]
    /\ threads' = [threads EXCEPT ![t] = [@ EXCEPT !.pc = "locked"]]
    /\ UNCHANGED <<builders, filters, compiled, collections, points, last>>

\* conn = sqlite3.connect(self.db_path, check_same_thread=False), before the
\* try: when it raises (refused), there is no connection to close and the
\* exception leaves the with of the lock.
OpenConnection(t, refused) ==
    /\ threads[t].pc = "locked"
    /\ threads' = [threads EXCEPT ![t] = IF refused THEN [@ EXCEPT !.pc = "leaving", !.error = Some("OperationalError")] ELSE [@ EXCEPT !.pc = "connected", !.conn = TRUE]]
    /\ UNCHANGED <<builders, filters, compiled, collections, points, db, last>>

\* What the statements of a section leave: the manager after them and the
\* exception they raised, if any.
Statements(d, op, fetched) ==
    IF op = "_migrate_history_table" THEN [raised |-> FALSE, error |-> "", db |-> _migrate_history_table(d)]
    ELSE IF op = "_create_history_table" THEN [raised |-> FALSE, error |-> "", db |-> _create_history_table(d)]
    ELSE IF op = "add_history" THEN add_history(d, Len(History(d)) + 1, "m1", None, Some("a"), "ADD", Some(1), Some(1), 0)
    ELSE get_history(d, "m1", fetched)

\* The body of the with: the statements run on the open connection. The
\* engine may refuse a statement (refused), and a statement on a missing
\* table raises; the exception goes to the finally of _get_connection.
RunStatements(t, refused) ==
    /\ threads[t].pc = "connected"
    /\ \E fetched \in (IF threads[t].op = "get_history" THEN Selected(History(db), "m1") ELSE {<<>>}) :
          LET o == Statements(db, threads[t].op, fetched)
          IN IF refused \/ o.raised
             THEN /\ threads' = [threads EXCEPT ![t] = [@ EXCEPT !.pc = "closing", !.error = Some("OperationalError")]]
                  /\ db' = db
             ELSE /\ threads' = [threads EXCEPT ![t] = [@ EXCEPT !.pc = "closing"]]
                  /\ db' = o.db
    /\ UNCHANGED <<builders, filters, compiled, collections, points, last>>

\* finally: conn.close(), on the return and on the exception.
CloseConnection(t) ==
    /\ threads[t].pc = "closing"
    /\ threads' = [threads EXCEPT ![t] = [@ EXCEPT !.pc = "leaving", !.conn = FALSE]]
    /\ UNCHANGED <<builders, filters, compiled, collections, points, db, last>>

ReleaseLock_only_on_return(t) == /\ threads[t].pc = "leaving" /\ db' = [db EXCEPT !._lock = threads[t].error # None] /\ threads' = [threads EXCEPT ![t] = [@ EXCEPT !.pc = IF threads[t].error # None /\ threads[t].init > 0 THEN "aborted" ELSE "idle", !.init = IF threads[t].error = None /\ @ > 0 THEN @ - 1 ELSE @]] /\ last' = [op |-> threads[t].op, thread |-> t, raised |-> threads[t].error # None, error |-> threads[t].error] /\ UNCHANGED <<builders, filters, compiled, collections, points>>

\* The with of the lock is left, by return or by exception: the lock is
\* released and the method ends. An exception in a section of __init__
\* leaves __init__: that manager is never handed to a caller.
ReleaseLock(t) ==
    /\ threads[t].pc = "leaving"
    /\ db' = [db EXCEPT !._lock = FALSE]
    /\ threads' = [threads EXCEPT ![t] = [@ EXCEPT !.pc = IF threads[t].error # None /\ threads[t].init > 0 THEN "aborted" ELSE "idle", !.init = IF threads[t].error = None /\ @ > 0 THEN @ - 1 ELSE @]]
    /\ last' = [op |-> threads[t].op, thread |-> t, raised |-> threads[t].error # None, error |-> threads[t].error]
    /\ UNCHANGED <<builders, filters, compiled, collections, points>>

NextSections ==
    \/ \E t \in LedgerThreads, op \in {"_migrate_history_table", "_create_history_table", "add_history", "get_history"} : EnterSection(t, op)
    \/ \E t \in LedgerThreads : AcquireLock(t)
    \/ \E t \in LedgerThreads, refused \in BOOLEAN : OpenConnection(t, refused)
    \/ \E t \in LedgerThreads, refused \in BOOLEAN : RunStatements(t, refused)
    \/ \E t \in LedgerThreads : CloseConnection(t)
    \/ \E t \in LedgerThreads : ReleaseLock(t)

SpecSections == InitSections /\ [][NextSections]_vars

\* The threads that are inside the with of the lock.
Holding == {t \in LedgerThreads : threads[t].pc \in {"locked", "connected", "closing", "leaving"}}

\* The threads whose connection is open.
Connected == {t \in LedgerThreads : threads[t].conn}

\* C26: under every interleaving of the sections of construction and of
\* concurrent add_history and get_history callers, at most one thread is
\* inside the lock, only that thread has an open connection, and a thread
\* that has left its section, by return or by a failed statement or
\* connection, holds neither: the lock is free whenever no thread is
\* inside, so a waiting caller can always enter after a failed call.
C26_SectionsMutuallyExclusive ==
    /\ Cardinality(Holding) <= 1
    /\ Connected \subseteq Holding
    /\ db._lock <=> Holding # {}
    /\ \A t \in LedgerThreads : threads[t].pc \in {"idle", "entering", "aborted", "leaving"} => ~threads[t].conn
    /\ (\E t \in LedgerThreads : threads[t].pc = "entering") /\ Holding = {} => \E t \in LedgerThreads : ENABLED AcquireLock(t)

\* A call has failed, and after it another thread is inside the lock with
\* its connection open while a third waits for the lock.
C26_Witness ==
    /\ last.op \in {"add_history", "get_history"}
    /\ last.raised
    /\ \E t \in LedgerThreads : t # last.thread /\ threads[t].pc = "connected" /\ threads[t].conn /\ db._lock
    /\ \E t \in LedgerThreads : threads[t].pc = "entering"

====
